---- MODULE Spec2Model ----
(***************************************************************************)
(* Job orchestration of the Electron main process (class PhotoEditorMain): *)
(* the job registry, startProcessing, the stdout / stderr / close handlers *)
(* of a worker process, updateJobProgress and cancelJob; and the jobs       *)
(* state of the renderer's ProcessingPanel.  Spec follows the registry,    *)
(* RunSpec one worker whose stdout is cut into chunks at any place, and    *)
(* PanelSpec one worker together with the panel.                           *)
(*                                                                         *)
(* Conventions.  An optional JavaScript value is a set with at most one    *)
(* element ({} is undefined).  A string that the code inspects or builds   *)
(* (a path, a message, a stage name) is a sequence of pieces, <<>> being   *)
(* the empty string: a path is its components, a stage name its words      *)
(* between underscores, a message its literal parts.                       *)
(***************************************************************************)
EXTENDS Integers, Sequences, FiniteSets, TLC

\* ------------------------------------------------------------------ bounds

\* Start calls that create a job.
MaxJobs == 1
\* stdout / stderr data events delivered over all workers.
MaxOutputs == 1
\* Largest exit code a worker returns (0 is success).
MaxExitCode == 1
\* Image files in the batch directory.
DirFiles == 4
\* Lines a followed worker run writes to stdout.
MaxLines == 2

\* processing.maxConcurrent of the default settings.
MaxConcurrent == 3

VARIABLES
    jobs,        \* this.jobs: job id (1, 2, ...) -> ProcessingJob
    proc,        \* per job, the worker process: "none", "live", "closed", or
                 \* "nostart" when the spawn was reported by an 'error' event
    batchOf,     \* per job, the start call that created it
    calls,       \* the start calls that created jobs: mode and input path
    cancelled,   \* jobs for which cancelJob returned true
    cancelledRunning,  \* those of them that were running when it did
    gotSuccess,  \* jobs that received an event with success: true
    outputs,     \* data events delivered so far
    last,        \* the handler that ran last: the job it ran for, what it
                 \* returned, and the messages it sent with webContents.send
    stream,      \* the stdout of one worker run: the whole text, the part
                 \* not yet delivered, and whether a chunk ended inside a line
    inbox,       \* messages sent to the renderer that it has not handled yet
    panel,       \* the jobs state of ProcessingPanel: job id -> mirrored job
    history      \* the messages sent so far (and whether the panel listened
                 \* when they were), and those its listeners were called with

vars == <<jobs, proc, batchOf, calls, cancelled, cancelledRunning, gotSuccess, outputs, last,
          stream, inbox, panel, history>>

\* The variables of the renderer and of the single worker run.
sideVars == <<stream, inbox, panel, history>>

\* ------------------------------------------------------- values and helpers

\* A JavaScript string or path is truthy when defined and not empty.
Truthy(opt) == opt # {} /\ opt # {<<>>}

\* The value of a defined optional.
The(opt) == CHOOSE x \in opt : TRUE

AgentKeys == {"analysis", "background", "gemini", "imagemagick", "qc"}

Terminal == {"completed", "failed", "cancelled"}

InitialProgress ==
    [stage |-> <<"initializing">>,
     message |-> <<"Starting processing...">>,
     agentStatus |-> [k \in AgentKeys |-> "pending"],
     qualityScore |-> {},
     strategy |-> {}]

NewJob(inputPath) ==
    [status |-> "pending",
     inputPath |-> inputPath,
     outputPath |-> {},
     progress |-> InitialProgress,
     process |-> FALSE]

CancelMessage == <<"Processing cancelled by user">>

ErrorMessage(text) == <<"Error: ", text>>

\* ------------------------------------------------------------ file system

PhotosDir == <<"photos">>
InputFile == <<"photos", "a.jpg">>
MissingFile == <<"photos", "missing.jpg">>
GivenOutputDir == <<"out">>

InputPaths == {<<>>, MissingFile, InputFile, PhotosDir}

\* fs.existsSync
ExistsSync(p) == p \in {PhotosDir, InputFile}

\* fs.statSync(p).isFile()
IsFile(p) == p = InputFile

\* path.dirname
Dirname(p) == SubSeq(p, 1, Len(p) - 1)

\* path.join(dir, file)
Join(dir, file) == Append(dir, file)

\* /\.(jpg|jpeg|png|webp)$/i on the file names a scan can return
IsImageFile(f) == f \in {"edited.jpg", "edited.PNG"}

SelectImages(files) == SelectSeq(files, IsImageFile)

\* What fs.readdirSync of an output directory may list.
Listings == {<<"notes.txt">>, <<"notes.txt", "edited.PNG">>}

\* fs.readdirSync on a directory: it throws, or it returns a listing.
Scans == {[ok |-> FALSE, files |-> <<>>]} \cup {[ok |-> TRUE, files |-> l] : l \in Listings}

\* ------------------------------------------------------------- worker output

NoEvent ==
    [agentStatus |-> {}, stage |-> {}, message |-> {}, quality_score |-> {},
     strategy |-> {}, output_path |-> {}, success |-> {}]

ReportedOutput == <<"out", "edited.jpg">>

EvAnalysis ==
    [NoEvent EXCEPT !.stage = {<<"analysis">>}, !.message = {<<"Analyzing image">>}]
EvAnalysisComplete == [NoEvent EXCEPT !.stage = {<<"analysis", "complete">>}]
EvQc == [NoEvent EXCEPT !.stage = {<<"qc", "complete">>}, !.quality_score = {9}]
EvDirect ==
    [NoEvent EXCEPT !.agentStatus = {("gemini" :> "running")},
                    !.stage = {<<"analysis">>}, !.strategy = {<<"gemini">>}]
EvSuccess ==
    [NoEvent EXCEPT !.success = {TRUE}, !.output_path = {ReportedOutput},
                    !.message = {<<"done">>}]
EvBelowThreshold ==
    [NoEvent EXCEPT !.success = {FALSE}, !.output_path = {ReportedOutput}]

\* An event whose output_path is the empty string.
EvEmptyOutput == [NoEvent EXCEPT !.output_path = {<<>>}]

Events ==
    {EvAnalysis, EvAnalysisComplete, EvQc, EvDirect, EvSuccess, EvBelowThreshold,
     EvEmptyOutput}

\* A line of stdout: a JSON object, text in braces that JSON.parse rejects,
\* other text, or white space.
JsonLine(e) == [kind |-> "json", data |-> e]
BadJsonLine == [kind |-> "badjson", data |-> NoEvent]
TextLine == [kind |-> "text", data |-> NoEvent]
BlankLine == [kind |-> "blank", data |-> NoEvent]

Lines == {JsonLine(e) : e \in Events} \cup {BadJsonLine, TextLine, BlankLine}

\* The data chunks a worker writes: one line, or two lines.
Chunks ==
    {<<l>> : l \in Lines}
    \cup {<<JsonLine(EvQc), JsonLine(EvSuccess)>>,
          <<JsonLine(EvAnalysis), JsonLine(EvAnalysisComplete)>>,
          <<TextLine, JsonLine(EvAnalysis)>>,
          <<JsonLine(EvAnalysis), BadJsonLine>>,
          <<JsonLine(EvSuccess), JsonLine(EvEmptyOutput)>>}

StderrTexts == {"Traceback"}

ExitCodes == 0 .. MaxExitCode

\* ------------------------------------------------------- updateJobProgress

\* stageAgentMap
StageAgentMap ==
    (<<"analysis">> :> "analysis")
    @@ (<<"analysis", "complete">> :> "analysis")
    @@ (<<"gemini", "editing">> :> "gemini")
    @@ (<<"gemini", "complete">> :> "gemini")
    @@ (<<"imagemagick", "optimization">> :> "imagemagick")
    @@ (<<"background", "removal">> :> "background")
    @@ (<<"quality", "control">> :> "qc")

\* stage.includes(word), on the words of a stage name
Includes(stage, word) == \E i \in 1 .. Len(stage) : stage[i] = word

\* Every mapped stage shown as running.
AlwaysRunning(stage) == "running"

StageStatus(stage) ==
    IF Includes(stage, "complete") THEN "completed"
    ELSE IF Includes(stage, "failed") \/ Includes(stage, "error") THEN "error"
    ELSE "running"

\* Object.assign(target, source)
ObjectAssign(target, source) ==
    [k \in DOMAIN target \cup DOMAIN source |->
        IF k \in DOMAIN source THEN source[k] ELSE target[k]]

\* The merge of a direct agentStatus followed by the stage lookup.
MergeThenResolveStage(agentStatus, e) ==
    LET merged == IF e.agentStatus # {} THEN ObjectAssign(agentStatus, The(e.agentStatus))
                  ELSE agentStatus
    IN  IF Truthy(e.stage) /\ The(e.stage) \in DOMAIN StageAgentMap
        THEN [merged EXCEPT ![StageAgentMap[The(e.stage)]] = StageStatus(The(e.stage))]
        ELSE merged

\* The agent of a stage taken from the first word of its name.
ResolveByFirstWord(agentStatus, e) ==
    IF e.agentStatus # {}
    THEN ObjectAssign(agentStatus, The(e.agentStatus))
    ELSE IF Truthy(e.stage) /\ Head(The(e.stage)) \in AgentKeys
    THEN [agentStatus EXCEPT ![Head(The(e.stage))] = StageStatus(The(e.stage))]
    ELSE agentStatus

AgentStatusAfter(agentStatus, e) ==
    IF e.agentStatus # {}
    THEN ObjectAssign(agentStatus, The(e.agentStatus))
    ELSE IF Truthy(e.stage) /\ The(e.stage) \in DOMAIN StageAgentMap
    THEN [agentStatus EXCEPT ![StageAgentMap[The(e.stage)]] = StageStatus(The(e.stage))]
    ELSE agentStatus

\* progressData.success !== undefined && progressData.success
ReportsSuccess(e) == e.success = {TRUE}

ProgressAfter(progress, e) ==
    [stage |-> IF Truthy(e.stage) THEN The(e.stage) ELSE progress.stage,
     message |-> IF Truthy(e.message) THEN The(e.message) ELSE progress.message,
     agentStatus |-> AgentStatusAfter(progress.agentStatus, e),
     qualityScore |-> IF e.quality_score # {} THEN e.quality_score ELSE progress.qualityScore,
     strategy |-> IF Truthy(e.strategy) THEN e.strategy ELSE progress.strategy]

\* updateJobProgress with the test output_path !== undefined.
UpdateWithAnyOutputPath(job, e) ==
    [job EXCEPT
        !.progress = ProgressAfter(job.progress, e),
        !.outputPath = IF e.output_path # {} THEN e.output_path ELSE job.outputPath,
        !.status = IF ReportsSuccess(e) THEN "completed" ELSE job.status]

\* The job record after updateJobProgress(jobId, e).
UpdateJobProgress(job, e) ==
    [job EXCEPT
        !.progress = ProgressAfter(job.progress, e),
        !.outputPath = IF Truthy(e.output_path) THEN e.output_path ELSE job.outputPath,
        !.status = IF ReportsSuccess(e) THEN "completed" ELSE job.status]

\* The 'job-progress' message updateJobProgress sends.
ProgressNote(job) == [kind |-> "progress", progress |-> job.progress]

\* ------------------------------------------------------ handleProcessOutput

\* line.trim() is not empty
NotBlank(line) == line.kind # "blank"

\* line.trim() starts with '{' and ends with '}'
LooksLikeJson(line) == line.kind \in {"json", "badjson"}

\* JSON.parse(line.trim()) returns
ParsesAsJson(line) == line.kind = "json"

\* The lines that reach updateJobProgress.
IsProgressLine(line) == NotBlank(line) /\ LooksLikeJson(line) /\ ParsesAsJson(line)

\* A job and its sent messages after the lines of one chunk, in order.
RECURSIVE HandleLines(_, _)
HandleLines(st, lines) ==
    IF lines = <<>> THEN st
    ELSE IF IsProgressLine(Head(lines))
    THEN LET job2 == UpdateJobProgress(st.job, Head(lines).data)
         IN  HandleLines([job |-> job2, sent |-> Append(st.sent, ProgressNote(job2))],
                         Tail(lines))
    ELSE HandleLines(st, Tail(lines))

\* Whether any line of the chunk carried success: true.
HasSuccessLine(lines) ==
    \E i \in 1 .. Len(lines) : IsProgressLine(lines[i]) /\ ReportsSuccess(lines[i].data)

\* ------------------------------------------- the text of a stdout data chunk

\* data.toString() is a sequence of pieces: a brace, the members of a JSON
\* object, text that is no JSON, white space, or a line feed.
LBrace == [t |-> "{", data |-> NoEvent]
RBrace == [t |-> "}", data |-> NoEvent]
Members(e) == [t |-> "members", data |-> e]
Junk == [t |-> "junk", data |-> NoEvent]
Space == [t |-> "space", data |-> NoEvent]
Newline == [t |-> "\n", data |-> NoEvent]

\* output.split('\n')
RECURSIVE SplitLines(_)
SplitLines(text) ==
    IF \A i \in 1 .. Len(text) : text[i] # Newline THEN <<text>>
    ELSE LET i == CHOOSE n \in 1 .. Len(text) :
                      text[n] = Newline /\ \A m \in 1 .. n - 1 : text[m] # Newline
         IN  <<SubSeq(text, 1, i - 1)>> \o SplitLines(SubSeq(text, i + 1, Len(text)))

\* line.trim()
RECURSIVE Trim(_)
Trim(line) ==
    IF line = <<>> THEN line
    ELSE IF Head(line) = Space THEN Trim(Tail(line))
    ELSE IF line[Len(line)] = Space THEN Trim(SubSeq(line, 1, Len(line) - 1))
    ELSE line

\* A parser that returns the first object it finds in the line.
FirstObjectIn(trimmed) ==
    IF \E i \in 1 .. Len(trimmed) : trimmed[i].t = "members"
    THEN {trimmed[CHOOSE i \in 1 .. Len(trimmed) : trimmed[i].t = "members"].data}
    ELSE {}

\* JSON.parse(trimmed): the object, or nothing when it throws.  White space
\* between the braces and the members is allowed, anything else is not.
JsonParse(trimmed) ==
    LET inner == SelectSeq(trimmed, LAMBDA tok : tok # Space)
    IN  IF inner = <<LBrace, RBrace>> THEN {NoEvent}
        ELSE IF Len(inner) = 3 /\ inner[1] = LBrace /\ inner[2].t = "members"
                /\ inner[3] = RBrace
        THEN {inner[2].data}
        ELSE {}

\* What handleProcessOutput makes of one line of the split.
LineOf(line) ==
    LET trimmed == Trim(line)
    IN  IF trimmed = <<>> THEN BlankLine
        ELSE IF Head(trimmed) = LBrace /\ trimmed[Len(trimmed)] = RBrace
        THEN IF JsonParse(trimmed) # {} THEN JsonLine(The(JsonParse(trimmed)))
             ELSE BadJsonLine
        ELSE TextLine

\* The lines of one chunk, in order.
ParseChunk(text) ==
    LET lines == SplitLines(text)
    IN  [i \in 1 .. Len(lines) |-> LineOf(lines[i])]

\* handleProcessOutput(jobId, output)
HandleProcessOutput(st, text) == HandleLines(st, ParseChunk(text))

\* ---------------------------------------------------------- startProcessing

Modes == {"single", "batch"}

\* The options of a start call: outputDir is optional.
StartOptions ==
    {[inputPath |-> <<>>, outputDir |-> {}, mode |-> "single"],
     [inputPath |-> MissingFile, outputDir |-> {}, mode |-> "single"],
     [inputPath |-> InputFile, outputDir |-> {}, mode |-> "single"],
     [inputPath |-> PhotosDir, outputDir |-> {GivenOutputDir}, mode |-> "batch"]}

\* Only the empty input path rejected.
EmptyInputOnly(options) == options.inputPath = <<>>

\* !options.inputPath || options.inputPath.trim() === '' || !fs.existsSync(...)
InputRejected(options) ==
    options.inputPath = <<>> \/ ~ExistsSync(options.inputPath)

\* outputDir.includes(os.tmpdir()) || includes('temp') || includes('Temp')
InTempDir(dir) == Includes(dir, "tmp") \/ Includes(dir, "temp") \/ Includes(dir, "Temp")

PicturesDir == <<"home", "Pictures", "Agentic Photo Editor">>
DocumentsDir == <<"home", "Documents", "Agentic Photo Editor">>

\* The output directory startProcessing settles on.
OutputDirFor(options, picturesExist) ==
    IF Truthy(options.outputDir) THEN The(options.outputDir)
    ELSE IF IsFile(options.inputPath)
    THEN IF InTempDir(Dirname(options.inputPath))
         THEN IF picturesExist THEN PicturesDir ELSE DocumentsDir
         ELSE Dirname(options.inputPath)
    ELSE options.inputPath

\* fs.existsSync(path.join(userHome, 'Pictures'))
HomeHasPictures == TRUE

\* Directories that exist before any start call.
DirExists(dir) == dir = PhotosDir

\* The argument vector of the worker.
WorkerArgs(options, outputDir) ==
    <<"photo_editor.py", IF options.mode = "single" THEN "process" ELSE "batch",
      options.inputPath, "--output-dir", outputDir, "--json-output">>

\* Image files of the batch directory.
ImageFilesIn(dir) == IF dir = PhotosDir THEN DirFiles ELSE 0

\* One job, with its own worker, per image file of a batch directory.
OneJobPerFile(options) ==
    IF options.mode = "batch" THEN ImageFilesIn(options.inputPath) ELSE 1

\* Jobs one start call registers: one generateJobId, one this.jobs.set.
NewJobCount(options) == 1

\* What spawn(pythonExecutable, args, ...) does: it starts the worker; it
\* throws (arguments the runtime rejects); or the system cannot start the
\* executable (ENOENT, EACCES), in which case spawn returns a ChildProcess
\* without a process and reports the failure later by an 'error' event, for
\* which startProcessing registers no listener.
SpawnOutcomes == {"ok", "throw", "error event"}

\* A worker per image file of a batch directory, all bound to the one job.
OneWorkerPerFile(options) ==
    IF options.mode = "batch" THEN ImageFilesIn(options.inputPath) ELSE 1

\* Worker processes one start call spawns for its job: the one spawn call.
WorkersSpawned(options) == 1

\* The job a start call leaves in the registry.
StartedJob(options, dir, mkdirOk, spawned) ==
    IF ~DirExists(dir) /\ ~mkdirOk
    THEN NewJob(options.inputPath)
    ELSE IF spawned = "throw"
    THEN [NewJob(options.inputPath) EXCEPT !.outputPath = {dir}, !.status = "failed"]
    ELSE [NewJob(options.inputPath) EXCEPT
            !.outputPath = {dir}, !.status = "running", !.process = TRUE]

\* What the start call returns to its caller.
StartResult(dir, mkdirOk, spawned) ==
    IF ~DirExists(dir) /\ ~mkdirOk THEN "throw mkdir"
    ELSE IF spawned = "throw" THEN "throw spawn"
    ELSE "jobId"

\* The worker process behind the job a start call registered.
StartedProc(options, dir, job, spawned) ==
    IF ~job.process THEN [state |-> "none", args |-> <<>>, workers |-> 0]
    ELSE IF spawned = "ok"
    THEN [state |-> "live", args |-> WorkerArgs(options, dir),
          workers |-> WorkersSpawned(options)]
    ELSE [state |-> "nostart", args |-> WorkerArgs(options, dir), workers |-> 0]

StartProcessing(options, picturesExist, mkdirOk, spawned) ==
    /\ Len(calls) < MaxJobs
    /\ IF InputRejected(options)
       THEN /\ last' = [op |-> "start", job |-> 0, ret |-> "throw input", sent |-> <<>>]
            /\ UNCHANGED <<jobs, proc, batchOf, calls, cancelled, cancelledRunning,
                           gotSuccess, outputs>>
       ELSE LET dir == OutputDirFor(options, picturesExist)
                job == StartedJob(options, dir, mkdirOk, spawned)
                n == NewJobCount(options)
            IN  /\ jobs' = jobs \o [i \in 1 .. n |-> job]
                /\ proc' = proc \o [i \in 1 .. n |-> StartedProc(options, dir, job, spawned)]
                /\ calls' = Append(calls, [mode |-> options.mode,
                                            inputPath |-> options.inputPath])
                /\ batchOf' = batchOf \o [i \in 1 .. n |-> Len(calls) + 1]
                /\ last' = [op |-> "start", job |-> Len(jobs) + 1,
                            ret |-> StartResult(dir, mkdirOk, spawned), sent |-> <<>>]
                /\ UNCHANGED <<cancelled, cancelledRunning, gotSuccess, outputs>>

\* ------------------------------------------------------------ data handlers

\* childProcess.stdout 'data': handleProcessOutput(jobId, data.toString())
StdoutData(j, chunk) ==
    /\ j \in DOMAIN jobs
    /\ proc[j].state = "live"
    /\ outputs < MaxOutputs
    /\ LET st == HandleLines([job |-> jobs[j], sent |-> <<>>], chunk)
       IN  /\ jobs' = [jobs EXCEPT ![j] = st.job]
           /\ last' = [op |-> "stdout", job |-> j, ret |-> "none", sent |-> st.sent]
    /\ gotSuccess' = IF HasSuccessLine(chunk) THEN gotSuccess \cup {j} ELSE gotSuccess
    /\ outputs' = outputs + 1
    /\ UNCHANGED <<proc, batchOf, calls, cancelled, cancelledRunning>>

\* The 'job-error' message handleProcessError sends.
ErrorNote(text) == [kind |-> "error", error |-> text]

\* The job record after handleProcessError(jobId, text).
HandleProcessError(job, text) ==
    [job EXCEPT !.progress.message = ErrorMessage(text)]

\* childProcess.stderr 'data': handleProcessError(jobId, data.toString())
StderrData(j, text) ==
    /\ j \in DOMAIN jobs
    /\ proc[j].state = "live"
    /\ outputs < MaxOutputs
    /\ jobs' = [jobs EXCEPT ![j] = HandleProcessError(jobs[j], text)]
    /\ outputs' = outputs + 1
    /\ last' = [op |-> "stderr", job |-> j, ret |-> "none", sent |-> <<ErrorNote(text)>>]
    /\ UNCHANGED <<proc, batchOf, calls, cancelled, cancelledRunning, gotSuccess>>

\* ------------------------------------------------------------- close handler

\* Paths fs.readdirSync can list: the others make it throw.
IsDirectory(p) == p \in {PhotosDir, GivenOutputDir, PicturesDir, DocumentsDir}

\* Every exit taken as a completion.
AlwaysCompleted(job, code) == "completed"

\* A close handler that keeps the status of a job already completed.
KeepCompleted(job, code) ==
    IF job.status = "completed" THEN "completed"
    ELSE IF code = 0 THEN "completed" ELSE "failed"

\* job.status = code === 0 ? 'completed' : 'failed'
CloseStatus(job, code) == IF code = 0 THEN "completed" ELSE "failed"

\* job.outputPath after the scan of the output directory.
ScannedOutputPath(job, code, scan) ==
    IF code = 0 /\ Truthy(job.outputPath)
    THEN IF IsDirectory(The(job.outputPath)) /\ scan.ok
         THEN IF Len(SelectImages(scan.files)) > 0
              THEN {Join(The(job.outputPath), SelectImages(scan.files)[1])}
              ELSE job.outputPath
         ELSE job.outputPath
    ELSE job.outputPath

\* The job record after the 'close' handler.
CloseJob(job, code, scan) ==
    [job EXCEPT
        !.status = CloseStatus(job, code),
        !.process = FALSE,
        !.outputPath = ScannedOutputPath(job, code, scan)]

\* The 'job-completed' message of the close handler.
CompletedNote(job, code) ==
    [kind |-> "completed", success |-> (code = 0),
     finalStatus |-> job.progress, outputPath |-> job.outputPath]

\* A completion message for 'exit' and another for 'close'.
NotesOnExitAndClose(job, code) == <<CompletedNote(job, code), CompletedNote(job, code)>>

\* The messages the close handler sends: the one 'job-completed'.
CloseNotes(job, code) == <<CompletedNote(job, code)>>

\* childProcess 'close'
Close(j, code, scan) ==
    /\ j \in DOMAIN jobs
    /\ proc[j].state = "live"
    /\ LET job == CloseJob(jobs[j], code, scan)
       IN  /\ jobs' = [jobs EXCEPT ![j] = job]
           /\ last' = [op |-> "close", job |-> j, ret |-> "none",
                       sent |-> CloseNotes(job, code)]
    /\ proc' = [proc EXCEPT ![j].state = "closed"]
    /\ UNCHANGED <<batchOf, calls, cancelled, cancelledRunning, gotSuccess, outputs>>

\* ------------------------------------------------------------------ cancelJob

\* A registered job, whatever its process.
IsRegistered(j) == j \in DOMAIN jobs

\* The job exists and holds a process: cancelJob goes on to kill it.
HasLiveProcess(j) == j \in DOMAIN jobs /\ jobs[j].process

\* The status cancelJob writes.
CancelStatus == "failed"

\* The job record after a cancelJob whose kill went through.
CancelledJob(job) ==
    [job EXCEPT !.status = CancelStatus, !.progress.message = CancelMessage]

\* ipc 'cancel-job': cancelJob(jobId)
CancelJob(j, killOk) ==
    /\ IF HasLiveProcess(j) /\ killOk
       THEN /\ jobs' = [jobs EXCEPT ![j] = CancelledJob(jobs[j])]
            /\ cancelled' = cancelled \cup {j}
            /\ cancelledRunning' =
                  IF jobs[j].status = "running" THEN cancelledRunning \cup {j}
                  ELSE cancelledRunning
            /\ last' = [op |-> "cancel", job |-> j, ret |-> "true", sent |-> <<>>]
       ELSE /\ last' = [op |-> "cancel", job |-> j, ret |-> "false", sent |-> <<>>]
            /\ UNCHANGED <<jobs, cancelled, cancelledRunning>>
    /\ UNCHANGED <<proc, batchOf, calls, gotSuccess, outputs>>

\* ------------------------------------------------------------ specification

\* No worker run is followed.
NoStream == [text |-> <<>>, rest |-> <<>>, split |-> FALSE]

\* Nothing sent yet.
NoHistory == [published |-> <<>>, handled |-> <<>>]

Init ==
    /\ jobs = <<>>
    /\ proc = <<>>
    /\ batchOf = <<>>
    /\ calls = <<>>
    /\ cancelled = {}
    /\ cancelledRunning = {}
    /\ gotSuccess = {}
    /\ outputs = 0
    /\ last = [op |-> "init", job |-> 0, ret |-> "none", sent |-> <<>>]
    /\ stream = NoStream
    /\ inbox = <<>>
    /\ panel = <<>>
    /\ history = NoHistory

Next ==
    \/ /\ \E options \in StartOptions, mkdirOk \in BOOLEAN, spawned \in SpawnOutcomes :
             StartProcessing(options, HomeHasPictures, mkdirOk, spawned)
       /\ UNCHANGED sideVars
    \/ /\ \E j \in DOMAIN jobs, chunk \in Chunks : StdoutData(j, chunk)
       /\ UNCHANGED sideVars
    \/ /\ \E j \in DOMAIN jobs, text \in StderrTexts : StderrData(j, text)
       /\ UNCHANGED sideVars
    \/ /\ \E j \in DOMAIN jobs, code \in ExitCodes, scan \in Scans : Close(j, code, scan)
       /\ UNCHANGED sideVars
    \/ /\ \E j \in 1 .. Len(jobs) + 1, killOk \in BOOLEAN : CancelJob(j, killOk)
       /\ UNCHANGED sideVars

Spec == Init /\ [][Next]_vars

\* ------------------------------------------------------ one worker run
\* The stdout of one worker, cut into chunks at any place, then its exit.

\* The text of a line that is one JSON object.
RecordText(e) == <<LBrace, Members(e), RBrace>>

\* A direct agentStatus with a stage that is no key of the table.
EvDirectUnmapped ==
    [NoEvent EXCEPT !.agentStatus = {("qc" :> "completed")}, !.stage = {<<"qc", "complete">>}]

\* An output_path that names a directory.
EvOutputDir == [NoEvent EXCEPT !.output_path = {GivenOutputDir}]

\* The events of the followed run.
RunEvents == Events \cup {EvDirectUnmapped, EvOutputDir}

\* The lines a worker prints, without their line feed.
LineTexts ==
    {RecordText(e) : e \in RunEvents}
    \cup {<<Space, LBrace, Space, Members(EvAnalysisComplete), RBrace, Space>>,
          <<LBrace, Junk, RBrace>>,
          <<LBrace, Members(EvSuccess), Junk, RBrace>>,
          <<Junk>>,
          <<Space>>}

\* The outputs of n lines, each ended by a line feed.
RECURSIVE TextsOf(_)
TextsOf(n) ==
    IF n = 0 THEN {<<>>}
    ELSE {l \o <<Newline>> \o t : l \in LineTexts, t \in TextsOf(n - 1)}

WorkerTexts == UNION {TextsOf(n) : n \in 1 .. MaxLines}

\* The start calls that spawn a worker.
RunOptions == {o \in StartOptions : ~InputRejected(o)}

\* The state after a start call that spawned its worker.
RunInit ==
    \E options \in RunOptions, text \in WorkerTexts :
        LET dir == OutputDirFor(options, HomeHasPictures)
            job == StartedJob(options, dir, TRUE, "ok")
        IN  /\ jobs = <<job>>
            /\ proc = <<StartedProc(options, dir, job, "ok")>>
            /\ batchOf = <<1>>
            /\ calls = <<[mode |-> options.mode, inputPath |-> options.inputPath]>>
            /\ cancelled = {}
            /\ cancelledRunning = {}
            /\ gotSuccess = {}
            /\ outputs = 0
            /\ last = [op |-> "start", job |-> 1,
                       ret |-> StartResult(dir, TRUE, "ok"), sent |-> <<>>]
            /\ stream = [text |-> text, rest |-> text, split |-> FALSE]
            /\ inbox = <<>>
            /\ panel = <<>>
            /\ history = NoHistory

\* childProcess.stdout 'data' with the next k pieces of the output.
StreamData(k) ==
    /\ proc[1].state = "live"
    /\ k \in 1 .. Len(stream.rest)
    /\ LET chunk == SubSeq(stream.rest, 1, k)
           st == HandleProcessOutput([job |-> jobs[1], sent |-> <<>>], chunk)
       IN  /\ jobs' = [jobs EXCEPT ![1] = st.job]
           /\ last' = [op |-> "stdout", job |-> 1, ret |-> "none", sent |-> st.sent]
           /\ gotSuccess' = IF HasSuccessLine(ParseChunk(chunk)) THEN gotSuccess \cup {1}
                             ELSE gotSuccess
           /\ stream' = [stream EXCEPT
                            !.rest = SubSeq(stream.rest, k + 1, Len(stream.rest)),
                            !.split = @ \/ chunk[k] # Newline]
    /\ UNCHANGED <<proc, batchOf, calls, cancelled, cancelledRunning, outputs, inbox, panel,
                   history>>

\* childProcess 'close', after the end of its stdout.
StreamClose(code, scan) ==
    /\ stream.rest = <<>>
    /\ Close(1, code, scan)
    /\ UNCHANGED sideVars

RunNext ==
    \/ \E k \in 1 .. Len(stream.rest) : StreamData(k)
    \/ \E code \in ExitCodes, scan \in Scans : StreamClose(code, scan)

RunSpec == RunInit /\ [][RunNext]_vars

\* -------------------------------------------------------------------- claims

\* The jobs one start call created.
JobsOfCall(c) == {j \in DOMAIN jobs : batchOf[j] = c}

\* The start calls made in batch mode on a directory.
BatchCalls == {c \in 1 .. Len(calls) : calls[c].mode = "batch"}

\* C1: the status of a job only moves pending -> running -> {completed,
\* failed, cancelled}; once terminal, no event, cancel or exit changes it.
C1_StatusMonotonic ==
    [][\A j \in DOMAIN jobs :
          \/ jobs'[j].status = jobs[j].status
          \/ jobs[j].status = "pending" /\ jobs'[j].status = "running"
          \/ jobs[j].status = "running" /\ jobs'[j].status \in Terminal]_vars

\* C2: a job that received an event with success: true is completed from then
\* on; a later nonzero exit code does not make it failed.
C2_SuccessIsFinal ==
    \A j \in gotSuccess : jobs[j].status = "completed"

\* C3: after a successful cancel of a running job the status is terminal and
\* not completed, in every later state.
C3_CancelIsFinal ==
    \A j \in cancelledRunning : jobs[j].status \in Terminal \ {"completed"}

C5_ExitAfterCancelIsNoOp ==
    [][(last'.op = "close" /\ last'.job \in cancelled)
       => (/\ jobs'[last'.job].status = jobs[last'.job].status
           /\ jobs'[last'.job].outputPath = jobs[last'.job].outputPath
           /\ jobs'[last'.job].progress = jobs[last'.job].progress
           /\ \A i \in 1 .. Len(last'.sent) : last'.sent[i].kind # "completed")]_vars

\* C6: a job cancelled by the user never has the status failed.
C6_CancelledIsNotFailed ==
    \A j \in cancelled : jobs[j].status # "failed"

\* C7: after a successful cancel the progress message is the cancellation
\* message, in every later state.
C7_CancelMessageStays ==
    \A j \in cancelled : jobs[j].progress.message = CancelMessage

\* C8: at most MaxConcurrent jobs of one batch hold a live process.
C8_BatchConcurrency ==
    \A c \in BatchCalls :
        Cardinality({j \in JobsOfCall(c) :
                        \/ proc[j].state = "live"
                        \/ jobs[j].process
                        \/ jobs[j].status = "running"}) <= MaxConcurrent

C8_Witness ==
    \E c \in BatchCalls :
        /\ ImageFilesIn(calls[c].inputPath) > MaxConcurrent
        /\ \E j \in JobsOfCall(c) : proc[j].state = "live" /\ jobs[j].process

\* C9: a batch on a directory creates one job per image file (and each of
\* them reaches a terminal status).
C9_OneJobPerInput ==
    \A c \in BatchCalls :
        Cardinality(JobsOfCall(c)) = ImageFilesIn(calls[c].inputPath)

\* C10: cancelling a job that was created but never spawned takes it out of
\* the queue: it is no longer pending after the call (and no process is
\* spawned for it later).
C10_CancelQueuedJob ==
    [][(/\ last'.op = "cancel"
        /\ last'.job \in DOMAIN jobs
        /\ jobs[last'.job].status = "pending"
        /\ proc[last'.job].state = "none")
       => (/\ jobs'[last'.job].status # "pending"
           /\ proc'[last'.job].state = "none")]_vars

\* --------------------------------------------------------------- renderer
\* ProcessingPanel: its jobs state, loaded with getAllJobs and kept up to
\* date by the handlers of the three channels.

\* The job record as it is, process included.
WholeJob(job) == job

\* getSerializableJob: the job without its process.
SerializableJob(job) ==
    [status |-> job.status, inputPath |-> job.inputPath,
     outputPath |-> job.outputPath, progress |-> job.progress]

\* getSerializableJobs
SerializableJobs == [j \in DOMAIN jobs |-> SerializableJob(jobs[j])]

\* getJobStatus(jobId): null for an unknown id.
GetJobStatus(j) == IF j \in DOMAIN jobs THEN {SerializableJob(jobs[j])} ELSE {}

PanelCancelMessage == <<"Cancelled by user">>

\* handleJobProgress, on the job of the message
PanelProgress(pjob, note) == [pjob EXCEPT !.progress = note.progress]

\* handleJobCompleted
PanelCompleted(pjob, note) ==
    [pjob EXCEPT
        !.status = IF note.success THEN "completed" ELSE "failed",
        !.progress = note.finalStatus,
        !.outputPath = IF Truthy(note.outputPath) THEN note.outputPath ELSE pjob.outputPath]

\* handleJobError
PanelError(pjob, note) ==
    [pjob EXCEPT !.status = "failed", !.progress.message = ErrorMessage(note.error)]

\* The mirrored job after the handler of the channel of the message.
PanelHandled(pjob, note) ==
    IF note.kind = "progress" THEN PanelProgress(pjob, note)
    ELSE IF note.kind = "completed" THEN PanelCompleted(pjob, note)
    ELSE PanelError(pjob, note)

\* The mirrored job after the panel's cancelJob.
PanelCancelled(pjob) ==
    [pjob EXCEPT !.status = "failed", !.progress.message = PanelCancelMessage]

\* webContents.send: the messages of a handler, with their jobId.
Sent(j, notes) == [i \in 1 .. Len(notes) |-> [job |-> j, note |-> notes[i]]]

\* The state after a start call that spawned its worker, the panel not yet
\* mounted.
PanelInit ==
    \E options \in RunOptions :
        LET dir == OutputDirFor(options, HomeHasPictures)
            job == StartedJob(options, dir, TRUE, "ok")
        IN  /\ jobs = <<job>>
            /\ proc = <<StartedProc(options, dir, job, "ok")>>
            /\ batchOf = <<1>>
            /\ calls = <<[mode |-> options.mode, inputPath |-> options.inputPath]>>
            /\ cancelled = {}
            /\ cancelledRunning = {}
            /\ gotSuccess = {}
            /\ outputs = 0
            /\ last = [op |-> "start", job |-> 1,
                       ret |-> StartResult(dir, TRUE, "ok"), sent |-> <<>>]
            /\ stream = NoStream
            /\ inbox = <<>>
            /\ panel = <<>>
            /\ history = NoHistory

\* The panel is mounted: its three listeners are registered (useEffect).
Listening == panel # <<>>

\* The history after a handler sent its messages.
Published(j, notes) ==
    [history EXCEPT !.published =
        @ \o [i \in 1 .. Len(notes) |->
                [job |-> j, note |-> notes[i], heard |-> Listening]]]

\* useEffect on mount: the listeners are registered and loadJobs sets the jobs
\* state from getAllJobs.
LoadJobs ==
    /\ panel = <<>>
    /\ panel' = SerializableJobs
    /\ UNCHANGED <<jobs, proc, batchOf, calls, cancelled, cancelledRunning, gotSuccess,
                   outputs, last, stream, inbox, history>>

\* A listener registered with ipcRenderer.once: gone after its first message.
FiresOnce(handled, m) ==
    \A i \in 1 .. Len(handled) : handled[i].note.kind # m.note.kind

\* ipcRenderer.on(channel, ...): the listener of the channel of the message
\* stays registered and is called for every message.
ListenerFires(handled, m) == TRUE

\* The renderer receives the oldest message.  With the panel mounted, the
\* listener of its channel calls the handler, which maps over the jobs the
\* panel holds; otherwise nobody listens and the message is dropped.
HandleNote ==
    /\ inbox # <<>>
    /\ LET m == Head(inbox)
       IN  IF Listening /\ ListenerFires(history.handled, m)
           THEN /\ panel' = [j \in DOMAIN panel |->
                                IF j = m.job THEN PanelHandled(panel[j], m.note)
                                ELSE panel[j]]
                /\ history' = [history EXCEPT !.handled = Append(@, m)]
           ELSE UNCHANGED <<panel, history>>
    /\ inbox' = Tail(inbox)
    /\ UNCHANGED <<jobs, proc, batchOf, calls, cancelled, cancelledRunning, gotSuccess,
                   outputs, last, stream>>

\* The panel's cancelJob: it invokes 'cancel-job' and, when the call returns,
\* marks the job it holds, whatever the call returned.
PanelCancelJob(j, killOk) ==
    /\ j \in DOMAIN panel
    /\ CancelJob(j, killOk)
    /\ panel' = [panel EXCEPT ![j] = PanelCancelled(panel[j])]
    /\ UNCHANGED <<stream, inbox, history>>

PanelNext ==
    \/ /\ \E j \in DOMAIN jobs, chunk \in Chunks : StdoutData(j, chunk)
       /\ inbox' = inbox \o Sent(last'.job, last'.sent)
       /\ history' = Published(last'.job, last'.sent)
       /\ UNCHANGED <<stream, panel>>
    \/ /\ \E j \in DOMAIN jobs, text \in StderrTexts : StderrData(j, text)
       /\ inbox' = inbox \o Sent(last'.job, last'.sent)
       /\ history' = Published(last'.job, last'.sent)
       /\ UNCHANGED <<stream, panel>>
    \/ /\ \E j \in DOMAIN jobs, code \in ExitCodes, scan \in Scans : Close(j, code, scan)
       /\ inbox' = inbox \o Sent(last'.job, last'.sent)
       /\ history' = Published(last'.job, last'.sent)
       /\ UNCHANGED <<stream, panel>>
    \/ LoadJobs
    \/ HandleNote
    \/ \E j \in DOMAIN panel, killOk \in BOOLEAN : PanelCancelJob(j, killOk)

PanelSpec == PanelInit /\ [][PanelNext]_vars

\* The renderer's event loop gets to every message it has received.
PanelFairSpec == PanelSpec /\ WF_vars(HandleNote)

\* ------------------------------------------------- claims on one worker run

\* The job as the start call of the followed run left it.
RunStartJob ==
    LET options == CHOOSE o \in RunOptions :
                       o.inputPath = calls[1].inputPath /\ o.mode = calls[1].mode
    IN  StartedJob(options, OutputDirFor(options, HomeHasPictures), TRUE, "ok")

\* The part of the output delivered so far.
Delivered == SubSeq(stream.text, 1, Len(stream.text) - Len(stream.rest))

\* The event of a line that is one structured record, white space aside.
RecordOf(line) ==
    {e \in RunEvents : SelectSeq(line, LAMBDA tok : tok # Space) = RecordText(e)}

\* The events of the structured lines of a text, in order.
RECURSIVE RecordsOf(_)
RecordsOf(lines) ==
    IF lines = <<>> THEN <<>>
    ELSE IF RecordOf(Head(lines)) # {}
    THEN <<The(RecordOf(Head(lines)))>> \o RecordsOf(Tail(lines))
    ELSE RecordsOf(Tail(lines))

\* A job after the given events, applied in order.
RECURSIVE ApplyRecords(_, _)
ApplyRecords(job, events) ==
    IF events = <<>> THEN job
    ELSE ApplyRecords(UpdateJobProgress(job, Head(events)), Tail(events))

\* The events of the whole lines delivered so far.
DeliveredRecords == RecordsOf(SplitLines(Delivered))

\* A line in braces that is no structured record.
IsMalformed(line) ==
    /\ line # <<>>
    /\ Head(line) = LBrace
    /\ RecordOf(line) = {}

\* C11: while the worker runs and every chunk ended at a line end, the job
\* record is the one obtained from the structured lines alone, in order:
\* malformed, plain and blank lines between them change neither the status
\* nor the progress.
C11_MalformedLinesIgnored ==
    (proc[1].state = "live" /\ ~stream.split)
        => jobs[1] = ApplyRecords(RunStartJob, DeliveredRecords)

C11_Witness ==
    /\ proc[1].state = "live"
    /\ ~stream.split
    /\ stream.rest = <<>>
    /\ \E i, k \in 1 .. Len(SplitLines(stream.text)) :
          /\ i < k
          /\ RecordOf(SplitLines(stream.text)[i]) = {EvAnalysis}
          /\ IsMalformed(SplitLines(stream.text)[k])
          /\ \E n \in 1 .. Len(SplitLines(stream.text)[k]) :
                SplitLines(stream.text)[k][n] = Members(EvSuccess)
    /\ jobs[1].status = "running"
    /\ jobs[1].progress.stage = <<"analysis">>

\* C12: once the whole output is delivered, the job record is the one the
\* whole output gives when it arrives as a single chunk, however the output
\* was cut into chunks.
C12_ChunkingIndependent ==
    (proc[1].state = "live" /\ stream.rest = <<>>)
        => jobs[1] = HandleProcessOutput([job |-> RunStartJob, sent |-> <<>>],
                                         stream.text).job

\* C13: after an event without agentStatus whose stage is a key of the
\* stage -> agent table, the status of that agent is completed when the stage
\* contains "complete", error when it contains "failed" or "error", and
\* running otherwise; so analysis then analysis_complete leaves analysis
\* completed.
C13_StagePolicy ==
    (proc[1].state = "live" /\ ~stream.split /\ DeliveredRecords # <<>>)
        => LET e == DeliveredRecords[Len(DeliveredRecords)]
           IN  (e.agentStatus = {} /\ e.stage # {} /\ The(e.stage) \in DOMAIN StageAgentMap)
                   => jobs[1].progress.agentStatus[StageAgentMap[The(e.stage)]]
                        = IF Includes(The(e.stage), "complete") THEN "completed"
                          ELSE IF Includes(The(e.stage), "failed")
                                  \/ Includes(The(e.stage), "error") THEN "error"
                          ELSE "running"

C13_Witness ==
    /\ proc[1].state = "live"
    /\ ~stream.split
    /\ stream.rest = <<>>
    /\ DeliveredRecords = <<EvAnalysis, EvAnalysisComplete>>
    /\ jobs[1].progress.agentStatus["analysis"] = "completed"

\* The last delivered event that reports a completion (a success field).
LastCompletion ==
    LET at == {i \in 1 .. Len(DeliveredRecords) : DeliveredRecords[i].success # {}}
    IN  IF at = {} THEN {}
        ELSE {DeliveredRecords[CHOOSE i \in at : \A k \in at : k <= i]}

\* C14: a job whose worker reported success: false with an output_path and
\* then exited is completed, and its outputPath is the reported path.
C14_BelowThresholdCompletes ==
    (/\ proc[1].state = "closed"
     /\ ~stream.split
     /\ LastCompletion # {}
     /\ The(LastCompletion).success = {FALSE}
     /\ Truthy(The(LastCompletion).output_path))
        => (/\ jobs[1].status = "completed"
            /\ jobs[1].outputPath = The(LastCompletion).output_path)

\* C15: for a job that was not cancelled and received no success: true, the
\* exit code decides the status (0 completed, otherwise failed), and the
\* progress recorded from the events before the exit is kept.
C15_ExitCodeDecides ==
    (last.op = "close" /\ 1 \notin gotSuccess /\ 1 \notin cancelled)
        => (/\ jobs[1].status = IF last.sent[1].success THEN "completed" ELSE "failed"
            /\ ~stream.split =>
                  jobs[1].progress = ApplyRecords(RunStartJob, DeliveredRecords).progress)

C15_Witness ==
    /\ last.op = "close"
    /\ last.sent[1].success
    /\ stream.text = RecordText(EvQc) \o <<Newline>>
    /\ ~stream.split
    /\ jobs[1].status = "completed"
    /\ jobs[1].progress.qualityScore = {9}

\* ------------------------------------------------------------ further claims

\* C16: a start call whose inputPath is empty or names nothing that exists
\* throws to its caller and leaves the registry and the processes as they
\* were: no job is created, none is running, nothing is spawned.
C16_BadInputFailsFast ==
    [][\A options \in StartOptions, mkdirOk \in BOOLEAN, spawned \in SpawnOutcomes :
          (/\ last'.op = "start"
           /\ (options.inputPath = <<>> \/ ~ExistsSync(options.inputPath))
           /\ StartProcessing(options, HomeHasPictures, mkdirOk, spawned))
             => (last'.ret = "throw input" /\ jobs' = jobs /\ proc' = proc)]_vars

C16_Witness ==
    /\ last.op = "start"
    /\ last.ret = "throw input"
    /\ jobs = <<>>
    /\ proc = <<>>

\* C17: a start call whose spawn started no worker leaves its job failed and
\* throws the spawn failure to its caller.
C17_SpawnFailureReported ==
    [][(/\ last'.op = "start"
        /\ last'.job \in DOMAIN jobs' \ DOMAIN jobs
        /\ last'.ret # "throw mkdir"
        /\ proc'[last'.job].workers = 0)
       => (/\ jobs'[last'.job].status = "failed"
           /\ last'.ret = "throw spawn")]_vars

\* C18: text on stderr is sent as a 'job-error' message and changes the
\* status of the job neither in the registry nor, when the message is
\* handled, in the panel.
C18_StderrKeepsStatus ==
    [][/\ last'.op = "stderr"
          => (/\ jobs'[last'.job].status = jobs[last'.job].status
              /\ \E i \in 1 .. Len(last'.sent) : last'.sent[i].kind = "error")
       /\ (/\ inbox # <<>>
           /\ inbox' = Tail(inbox)
           /\ Head(inbox).note.kind = "error"
           /\ Head(inbox).job \in DOMAIN panel)
          => panel'[Head(inbox).job].status = panel[Head(inbox).job].status]_vars

\* C19: an outputPath that holds a value holds a value after every step.
C19_OutputPathNeverCleared ==
    [][\A j \in DOMAIN jobs : Truthy(jobs[j].outputPath) => Truthy(jobs'[j].outputPath)]_vars

C19_Witness ==
    /\ last.op = "stdout"
    /\ Len(last.sent) = 2
    /\ last.sent[1].progress = last.sent[2].progress
    /\ last.job \in gotSuccess
    /\ jobs[last.job].outputPath = {ReportedOutput}

\* Worker processes of a job that are running.
LiveWorkers(p) == IF p.state = "live" THEN p.workers ELSE 0

\* C20: a job has at most one live worker process; no step spawns for a job
\* that is already registered, so a job whose process is not live never has a
\* live one again.
C20_OneProcessPerJob ==
    [][\A j \in DOMAIN jobs' :
          /\ LiveWorkers(proc'[j]) <= 1
          /\ j \in DOMAIN jobs =>
                /\ proc'[j].workers = proc[j].workers
                /\ proc'[j].state = "live" => proc[j].state = "live"]_vars

C20_Witness ==
    /\ last.op = "cancel"
    /\ last.job \in DOMAIN jobs
    /\ proc[last.job].state = "closed"
    /\ proc[last.job].workers = 1

\* A value that carries the process field of a job, at the top or in the
\* progress it holds.
HoldsHandle(value) ==
    \/ "process" \in DOMAIN value
    \/ "progress" \in DOMAIN value /\ "process" \in DOMAIN value.progress
    \/ "finalStatus" \in DOMAIN value /\ "process" \in DOMAIN value.finalStatus

\* C21: what getJobStatus and getAllJobs return, and every message sent to
\* the renderer, holds no process field, also while the worker runs.
C21_HandleStaysInside ==
    /\ \A j \in 1 .. Len(jobs) + 1 : \A v \in GetJobStatus(j) : ~HoldsHandle(v)
    /\ \A j \in DOMAIN SerializableJobs : ~HoldsHandle(SerializableJobs[j])
    /\ \A i \in 1 .. Len(last.sent) : ~HoldsHandle(last.sent[i])

C21_Witness ==
    /\ last.op = "stdout"
    /\ last.sent # <<>>
    /\ jobs[last.job].process
    /\ proc[last.job].state = "live"
    /\ GetJobStatus(last.job) # {}

\* ------------------------------------------------- claims on the renderer

\* The messages sent while the panel listened, in the order of their sends.
Owed ==
    LET heard == SelectSeq(history.published, LAMBDA m : m.heard)
    IN  [i \in 1 .. Len(heard) |-> [job |-> heard[i].job, note |-> heard[i].note]]

\* The messages the listeners were called with, then those still on their way.
Wire == history.handled \o inbox

\* Every message sent while the panel listened has reached its listener or is
\* on its way, and they come in the order of their sends.
NoneLostOrReordered ==
    /\ Len(Owed) <= Len(Wire)
    /\ SubSeq(Wire, Len(Wire) - Len(Owed) + 1, Len(Wire)) = Owed

LastRecord == DeliveredRecords[Len(DeliveredRecords)]

\* The job before that event.
JobBeforeLast ==
    ApplyRecords(RunStartJob, SubSeq(DeliveredRecords, 1, Len(DeliveredRecords) - 1))

\* C23: after an event with a direct agentStatus, the agents it names have
\* the status it gives and every other agent has the status it had before,
\* whatever stage the event carries.
C23_DirectStatusMerge ==
    (/\ proc[1].state = "live"
     /\ ~stream.split
     /\ DeliveredRecords # <<>>
     /\ LastRecord.agentStatus # {})
        => \A k \in AgentKeys :
              jobs[1].progress.agentStatus[k] =
                 IF k \in DOMAIN The(LastRecord.agentStatus)
                 THEN The(LastRecord.agentStatus)[k]
                 ELSE JobBeforeLast.progress.agentStatus[k]

C23_Witness ==
    /\ proc[1].state = "live"
    /\ ~stream.split
    /\ DeliveredRecords = <<EvAnalysisComplete, EvDirect>>
    /\ jobs[1].progress.agentStatus["gemini"] = "running"
    /\ jobs[1].progress.agentStatus["analysis"] = "completed"

\* What an event with a stage outside the table does: the stage and, when
\* present, the message are recorded and no agent changes.
UnmappedStageEffect ==
    /\ jobs[1].progress.stage = The(LastRecord.stage)
    /\ Truthy(LastRecord.message) => jobs[1].progress.message = The(LastRecord.message)
    /\ jobs[1].progress.agentStatus = JobBeforeLast.progress.agentStatus

\* C24 as stated: after any event whose stage is no key of the table, the
\* stage (and the message if present) is recorded and the five agentStatus
\* entries are as before.
C24_UnmappedStage ==
    (/\ proc[1].state = "live"
     /\ ~stream.split
     /\ DeliveredRecords # <<>>
     /\ Truthy(LastRecord.stage)
     /\ The(LastRecord.stage) \notin DOMAIN StageAgentMap)
        => UnmappedStageEffect

\* C24 amended: the same for an event that carries no direct agentStatus.
C24_UnmappedStageNoDirect ==
    (/\ proc[1].state = "live"
     /\ ~stream.split
     /\ DeliveredRecords # <<>>
     /\ Truthy(LastRecord.stage)
     /\ The(LastRecord.stage) \notin DOMAIN StageAgentMap
     /\ LastRecord.agentStatus = {})
        => UnmappedStageEffect

C24_Witness ==
    /\ proc[1].state = "live"
    /\ ~stream.split
    /\ DeliveredRecords = <<EvAnalysis, EvQc>>
    /\ jobs[1].progress.stage = <<"qc", "complete">>
    /\ jobs[1].progress.agentStatus["qc"] = "pending"
    /\ jobs[1].progress.agentStatus["analysis"] = "running"

\* The output_path of the last delivered event that carried one.
LastReportedPath ==
    LET at == {i \in 1 .. Len(DeliveredRecords) : Truthy(DeliveredRecords[i].output_path)}
    IN  IF at = {} THEN {}
        ELSE DeliveredRecords[CHOOSE i \in at : \A k \in at : k <= i].output_path

\* C25: after the exit, the outputPath of a job to which an event reported an
\* output_path is the reported one, whatever the scan of the close handler
\* found; and when the scan fails, outputPath is what it was.
C25_ScanKeepsReportedPath ==
    (last.op = "close" /\ ~stream.split /\ LastReportedPath # {})
        => jobs[1].outputPath = LastReportedPath

\* ------------------------------------------------ further claims on the jobs

\* C26: a cancel of a job that a success: true event completed and whose
\* worker has not exited leaves the status of the job completed.
C26_CancelKeepsCompleted ==
    [][(/\ last'.op = "cancel"
        /\ last'.job \in gotSuccess
        /\ proc[last'.job].state = "live"
        /\ jobs[last'.job].status = "completed")
       => jobs'[last'.job].status = "completed"]_vars

\* The messages published so far for job j, oldest first.
PublishedFor(j) ==
    LET mine == SelectSeq(history.published, LAMBDA m : m.job = j)
    IN  [i \in 1 .. Len(mine) |-> mine[i].note]

\* C27: for a job whose worker was spawned, no completed message is published
\* while the worker runs, exactly one has been published once it has exited,
\* and that message is the last one published for the job that is a progress
\* or a completed message.
C27_OneCompletedNote ==
    \A j \in DOMAIN jobs :
        LET notes == PublishedFor(j)
            done == {i \in 1 .. Len(notes) : notes[i].kind = "completed"}
        IN  /\ proc[j].state = "live" => done = {}
            /\ proc[j].state = "closed" => Cardinality(done) = 1
            /\ \A i \in done : \A k \in i + 1 .. Len(notes) :
                   notes[k].kind \notin {"progress", "completed"}

C27_Witness ==
    /\ proc[1].state = "closed"
    /\ last.op = "cancel"
    /\ Len(PublishedFor(1)) >= 2
    /\ PublishedFor(1)[1].kind = "progress"
    /\ PublishedFor(1)[Len(PublishedFor(1))].kind = "completed"

\* C28: the success flag of a completed message is true exactly when the
\* status the job has in the registry when the message is sent is completed.
C28_SuccessFlagIsStatus ==
    last.op = "close" =>
        \A i \in 1 .. Len(last.sent) :
            last.sent[i].kind = "completed" =>
               (last.sent[i].success <=> jobs[last.job].status = "completed")

C28_Witness ==
    /\ last.op = "close"
    /\ last.job \in gotSuccess
    /\ last.sent # <<>>
    /\ ~last.sent[1].success
    /\ jobs[last.job].status = "failed"

\* C29: after a start call has returned or thrown, no job of the registry is
\* pending.
C29_NoJobLeftPending ==
    \A j \in DOMAIN jobs : jobs[j].status # "pending"

\* The messages for job j that the panel has not handled yet.
Unhandled(j) == SelectSeq(inbox, LAMBDA m : m.job = j)

\* C30: for a job the panel holds, once every message published for the job
\* has been handled, the status the panel holds is the status getJobStatus
\* returns for the job.
C30_PanelAgreesWithRegistry ==
    \A j \in DOMAIN panel :
        (Unhandled(j) = <<>> /\ GetJobStatus(j) # {})
            => panel[j].status = The(GetJobStatus(j)).status

====
